---------------------------- MODULE Spec2Model ----------------------------
(***************************************************************************)
(* Model of app.py, the SEO meta title / description generator.            *)
(*                                                                         *)
(* Text is modelled by TLA+ strings (sequences of characters): Len is      *)
(* Python's len, \o is concatenation, SubSeq is slicing.  The en dash      *)
(* U+2013 of the templates, one character in Python, is written "-".       *)
(*                                                                         *)
(* The button handler (app.py 141-172) is a sequential loop over the rows  *)
(* of the uploaded table; every call of random.choice is one step, so that *)
(* the retry loops of generate_title / generate_description and the        *)
(* deduplication loops of the handler are visible.                         *)
(***************************************************************************)
EXTENDS Integers, Sequences, FiniteSets, TLC

VARIABLES
    rows,                   \* df: the uploaded table, a sequence of rows
    i,                      \* index of the row df.iterrows() is at
    pc,                     \* position of the handler
    title1, existing_desc, primary_kw, secondary_kw, tertiary_kw,
    intent,
    k,                      \* iterations of "for _ in range(10)" done
    nDraws,                 \* calls of random.choice made by the running call
    cand,                   \* local "title" / "desc" of the running call
    meta_title, meta_desc,
    generated_titles, generated_descriptions,
    titles, descs, intents,
    out                     \* the columns the handler adds to df

vars == <<rows, i, pc, title1, existing_desc, primary_kw, secondary_kw,
          tertiary_kw, intent, k, nDraws, cand, meta_title, meta_desc,
          generated_titles, generated_descriptions, titles, descs, intents,
          out>>

-----------------------------------------------------------------------------
(* Configuration, app.py 16-17, and the retry budget of app.py 86 / 116.   *)

TITLE_MIN == 50
TITLE_MAX == 60
DESC_MIN == 150
DESC_MAX == 160
RETRIES == 10

(* Bounds of the model.                                                    *)
MaxRows == 2
MaxHangRows == 3

-----------------------------------------------------------------------------
(* Python string helpers.                                                  *)

\* a fallback that forgets the slice
TakeAll(s, n) == s
\* s[:n]
Take(s, n) == IF Len(s) <= n THEN s ELSE SubSeq(s, 1, n)

\* s[p-1] as a one-character string ("" outside the string)
CharAt(s, p) == IF p >= 1 /\ p <= Len(s) THEN SubSeq(s, p, p) ELSE ""

Whitespace == {" ", "\t", "\n", "\r"}

RECURSIVE LStrip(_)
LStrip(s) ==
    IF Len(s) > 0 /\ CharAt(s, 1) \in Whitespace
    THEN LStrip(SubSeq(s, 2, Len(s)))
    ELSE s

RECURSIVE RStrip(_)
RStrip(s) ==
    IF Len(s) > 0 /\ CharAt(s, Len(s)) \in Whitespace
    THEN RStrip(SubSeq(s, 1, Len(s) - 1))
    ELSE s

\* str.strip()
Strip(s) == RStrip(LStrip(s))

LowerChar(c) ==
    CASE c = "A" -> "a" [] c = "B" -> "b" [] c = "C" -> "c" [] c = "D" -> "d"
      [] c = "E" -> "e" [] c = "F" -> "f" [] c = "G" -> "g" [] c = "H" -> "h"
      [] c = "I" -> "i" [] c = "J" -> "j" [] c = "K" -> "k" [] c = "L" -> "l"
      [] c = "M" -> "m" [] c = "N" -> "n" [] c = "O" -> "o" [] c = "P" -> "p"
      [] c = "Q" -> "q" [] c = "R" -> "r" [] c = "S" -> "s" [] c = "T" -> "t"
      [] c = "U" -> "u" [] c = "V" -> "v" [] c = "W" -> "w" [] c = "X" -> "x"
      [] c = "Y" -> "y" [] c = "Z" -> "z" [] OTHER -> c

\* str.lower()
RECURSIVE Lower(_)
Lower(s) ==
    IF Len(s) = 0 THEN s
    ELSE LowerChar(CharAt(s, 1)) \o Lower(SubSeq(s, 2, Len(s)))

\* the characters the regular expression class \w matches
WordChars ==
    {"a", "b", "c", "d", "e", "f", "g", "h", "i", "j", "k", "l", "m", "n",
     "o", "p", "q", "r", "s", "t", "u", "v", "w", "x", "y", "z",
     "A", "B", "C", "D", "E", "F", "G", "H", "I", "J", "K", "L", "M", "N",
     "O", "P", "Q", "R", "S", "T", "U", "V", "W", "X", "Y", "Z",
     "0", "1", "2", "3", "4", "5", "6", "7", "8", "9", "_"}

IsWordAt(s, p) == CharAt(s, p) \in WordChars

\* a pattern without \b: bare substring matching
BoundaryNoCheck(s, p) == TRUE
\* \b between the characters at positions p and p+1
Boundary(s, p) == IsWordAt(s, p) # IsWordAt(s, p + 1)

\* re.search(r"\b(kw1|kw2|...)\b", text)
Search(kws, text) ==
    \E kw \in kws : \E p \in 1..Len(text) :
        /\ p + Len(kw) - 1 <= Len(text)
        /\ SubSeq(text, p, p + Len(kw) - 1) = kw
        /\ Boundary(text, p - 1)
        /\ Boundary(text, p + Len(kw) - 1)

-----------------------------------------------------------------------------
(* detect_intent, app.py 32-43.  "specs?" and "types?" are written as the  *)
(* two words each of them matches.                                         *)

ProductKW == {"buy", "shop", "price", "model", "deal", "feature", "spec", "specs"}
ServiceKW == {"service", "consult", "solution", "support", "agency", "expert"}
BlogKW == {"how to", "guide", "tips", "news", "insight", "learn", "blog"}
CategoryKW == {"collection", "list", "type", "types", "best", "compare", "category"}

\* variants with a slip: the first two tests swapped; no generic default
detect_intent_service_first(title, desc) ==
    LET text == Lower(title \o " " \o desc) IN
    IF Search(ServiceKW, text) THEN "service"
    ELSE IF Search(ProductKW, text) THEN "product"
    ELSE IF Search(BlogKW, text) THEN "blog"
    ELSE IF Search(CategoryKW, text) THEN "category"
    ELSE "generic"

detect_intent_blog_default(title, desc) ==
    LET text == Lower(title \o " " \o desc) IN
    IF Search(ProductKW, text) THEN "product"
    ELSE IF Search(ServiceKW, text) THEN "service"
    ELSE IF Search(CategoryKW, text) THEN "category"
    ELSE "blog"

detect_intent(title, desc) ==
    LET text == Lower(title \o " " \o desc) IN
    IF Search(ProductKW, text) THEN "product"
    ELSE IF Search(ServiceKW, text) THEN "service"
    ELSE IF Search(BlogKW, text) THEN "blog"
    ELSE IF Search(CategoryKW, text) THEN "category"
    ELSE "generic"

-----------------------------------------------------------------------------
(* within_range, app.py 49-50.                                             *)

\* a range test that forgets the minimum
within_range_max_only(text, min_len, max_len) == Len(text) <= max_len
within_range(text, min_len, max_len) == min_len <= Len(text) /\ Len(text) <= max_len

(* The template table of generate_title, app.py 53-84, and the lookup      *)
(* templates.get(intent, templates["generic"]) of app.py 87 and 90.        *)

title_templates(it, t1, pk, sk) ==
    CASE it = "product" ->
           << "Buy " \o t1 \o " | " \o pk \o " Details & Pricing",
              pk \o " - " \o t1 \o " with Latest Features",
              t1 \o ": Premium " \o pk \o " for Every Need",
              t1 \o " - Explore Top " \o pk \o " Options" >>
      [] it = "service" ->
           << t1 \o " | Professional " \o pk \o " Services",
              "Trusted " \o pk \o " Solutions - " \o t1,
              t1 \o " - Expert " \o pk \o " Support",
              "Reliable " \o pk \o " & " \o sk \o " by " \o t1 >>
      [] it = "blog" ->
           << t1 \o " - " \o pk \o " Insights & Expert Tips",
              pk \o " Guide: " \o t1,
              "Learn " \o pk \o " Strategies with " \o t1,
              t1 \o ": Explore " \o pk \o " & " \o sk >>
      [] it = "category" ->
           << "Best " \o pk \o " " \o t1 \o " - Compare Top Choices",
              t1 \o ": Explore Leading " \o pk \o " Options",
              "Top " \o pk \o " " \o t1 \o " for Smart Selection",
              pk \o " " \o t1 \o " | Discover What Fits You" >>
      [] OTHER ->
           << t1 \o " | " \o pk \o " Insights & Information",
              "Discover " \o pk \o " at " \o t1,
              pk \o " - Learn More with " \o t1,
              t1 \o ": Everything About " \o pk >>

(* The template table of generate_description, app.py 93-114, and the      *)
(* lookup of app.py 117 and 120.                                           *)

description_templates(it, t1, pk, sk, tk) ==
    CASE it = "product" ->
           << "Discover " \o t1 \o ", a premium " \o pk
                \o " offering the best in performance and value. Compare "
                \o sk \o " and " \o tk \o " to find your perfect match today.",
              "Explore " \o t1 \o ", designed for those who want the finest "
                \o pk \o ". Compare " \o sk \o " and " \o tk
                \o " for a smarter buying choice." >>
      [] it = "service" ->
           << "At " \o t1 \o ", we provide professional " \o pk
                \o " services that deliver real results. Our experts offer tailored "
                \o sk \o " and " \o tk \o " solutions for every client.",
              "Experience reliable " \o pk \o " solutions from " \o t1
                \o ". We help you with " \o sk \o " and " \o tk
                \o " support designed for lasting success." >>
      [] it = "blog" ->
           << "Read " \o t1 \o " to explore expert insights on " \o pk
                \o ". Learn about " \o sk \o " and " \o tk
                \o " strategies to stay informed and ahead of the competition.",
              t1 \o " covers essential " \o pk \o " knowledge with practical "
                \o sk \o " and " \o tk
                \o " tips for professionals and learners alike." >>
      [] it = "category" ->
           << "Browse the best " \o pk \o " in " \o t1 \o ". Compare " \o sk
                \o " and " \o tk
                \o " options to find products that meet your exact requirements with ease.",
              "Explore " \o t1 \o " - a curated range of " \o pk \o ". Compare "
                \o sk \o " and " \o tk
                \o " to discover the right fit for your needs." >>
      [] OTHER ->
           << t1 \o " provides detailed information about " \o pk
                \o ". Explore " \o sk \o " and " \o tk
                \o " insights that help you make smarter decisions.",
              "Learn everything about " \o pk \o " with " \o t1 \o ". Discover "
                \o sk \o " and " \o tk \o " to expand your knowledge today." >>

-----------------------------------------------------------------------------
(* The uploaded table.  A cell is a string or null (pandas' NaN); a row    *)
(* maps the columns the file has to cells.                                 *)

Columns == {"Title 1", "Existing Description", "Primary KW", "Secondary KW",
            "Tertiary KW"}

Cell(s) == [isnull |-> FALSE, text |-> s]
NaN == [isnull |-> TRUE, text |-> ""]

\* str(v): str(float("nan")) is "nan"
Str(v) == IF v.isnull THEN "nan" ELSE v.text

\* row.get(col, "")
Get(row, col) == IF col \in DOMAIN row THEN row[col] ELSE Cell("")

\* str(row.get(col, "")).strip(), app.py 147-151
Field(row, col) == Strip(Str(Get(row, col)))

MkRow(t, e, p, s, q) ==
    [c \in Columns |->
        CASE c = "Title 1" -> t
          [] c = "Existing Description" -> e
          [] c = "Primary KW" -> p
          [] c = "Secondary KW" -> s
          [] OTHER -> q]

Restrict(row, cols) == [c \in cols |-> row[c]]

AcmeRow ==
    MkRow(Cell("Acme Laptops"), Cell("Buy the best gaming laptop"),
          Cell("gaming laptop"), Cell("RTX graphics"), Cell("fast SSD"))
BlogRow ==
    MkRow(Cell(" My Blog"), Cell("Notes on how to start "),
          Cell(" "), Cell(" "), Cell(" "))
BlankRow == MkRow(Cell(" "), Cell(" "), Cell(" "), Cell(" "), Cell(" "))
NullRow == MkRow(NaN, NaN, NaN, NaN, NaN)
LongRow ==
    MkRow(Cell("Northwind Enterprise Cloud Consulting"),
          Cell("A trusted agency for regulated industries"),
          Cell("managed cloud infrastructure migration"),
          Cell("continuous security audits"), Cell("compliance reporting"))

ListRow ==
    MkRow(Cell("The Complete Collection of Outdoor Equipment"),
          Cell("Compare every category of our catalogue"),
          Cell("lightweight four-season expedition tents"),
          Cell("insulated sleeping bags"), Cell("trekking poles"))

RowSet == {AcmeRow, BlogRow, BlankRow, LongRow, ListRow}

SeqsUpTo(S, n) == UNION {[1..m -> S] : m \in 1..n}

\* the tables of the batch runs: up to MaxRows rows, repeated rows included
Tables == SeqsUpTo(RowSet, MaxRows)

\* the tables of the runs over one row: texts that hold keywords as whole
\* words, inside longer words, in upper case and across the two fields;
\* null cells; files without the keyword columns or without any known column
TitleCells ==
    {NaN, Cell(" "), Cell("Buy Now"), Cell("Rebuy Center"), Cell("Buying Power"),
     Cell("SHOP deals"), Cell("Expert Support"), Cell("Know How"),
     Cell("Best Types"), Cell("Typeset Lists"), Cell("model_x"),
     Cell("Acme"), Cell("Specs-Sheet"), Cell("Consulting"), Cell("Learn")}
DescCells ==
    {NaN, Cell(" "), Cell("to guide"), Cell("buy expert support"),
     Cell("how  to"), Cell("How To compare"), Cell("insights"),
     Cell("the best solution"), Cell("news2day"), Cell("a collection of tips"),
     Cell("featured"), Cell("agency price list")}
KwCells ==
    {<<NaN, NaN, NaN>>,
     <<Cell("gaming laptop"), Cell("RTX graphics"), Cell("fast SSD")>>}
ColumnChoices == {Columns, {"Title 1", "Existing Description"}, {}}

OneRowTables ==
    {<<Restrict(MkRow(t, e, kw[1], kw[2], kw[3]), cols)>> :
        t \in TitleCells, e \in DescCells, kw \in KwCells, cols \in ColumnChoices}

\* tables of 1..MaxHangRows copies of one row
HangTables ==
    {[n \in 1..m |-> r] : m \in 1..MaxHangRows, r \in RowSet}

-----------------------------------------------------------------------------
(* The handler of the "Generate" button, app.py 141-172.                   *)

InitWith(table) ==
    /\ rows = table
    /\ i = 1
    /\ pc = "row"
    /\ title1 = "" /\ existing_desc = "" /\ primary_kw = ""
    /\ secondary_kw = "" /\ tertiary_kw = ""
    /\ intent = ""
    /\ k = 0 /\ nDraws = 0 /\ cand = ""
    /\ meta_title = "" /\ meta_desc = ""
    /\ generated_titles = {} /\ generated_descriptions = {}
    /\ titles = <<>> /\ descs = <<>> /\ intents = <<>>
    /\ out = <<>>

Init == \E table \in Tables : InitWith(table)

\* app.py 146-153: the next row's fields and its intent; generate_title is called
ReadRow ==
    /\ pc = "row" /\ i <= Len(rows)
    /\ title1' = Field(rows[i], "Title 1")
    /\ existing_desc' = Field(rows[i], "Existing Description")
    /\ primary_kw' = Field(rows[i], "Primary KW")
    /\ secondary_kw' = Field(rows[i], "Secondary KW")
    /\ tertiary_kw' = Field(rows[i], "Tertiary KW")
    /\ intent' = detect_intent(title1', existing_desc')
    /\ pc' = "gen_title" /\ k' = 0 /\ nDraws' = 0 /\ cand' = ""
    /\ UNCHANGED <<rows, i, meta_title, meta_desc, generated_titles,
                   generated_descriptions, titles, descs, intents, out>>

TitleTemplates == title_templates(intent, title1, primary_kw, secondary_kw)
DescTemplates ==
    description_templates(intent, title1, primary_kw, secondary_kw, tertiary_kw)

\* app.py 86-89: one iteration of the retry loop of generate_title
DrawTitle(c) ==
    /\ pc = "gen_title" /\ k < RETRIES
    /\ cand' = TitleTemplates[c]
    /\ nDraws' = nDraws + 1
    /\ IF within_range(cand', TITLE_MIN, TITLE_MAX)
       THEN meta_title' = cand' /\ pc' = "chk_title" /\ k' = k
       ELSE meta_title' = meta_title /\ pc' = pc /\ k' = k + 1
    /\ UNCHANGED <<rows, i, title1, existing_desc, primary_kw, secondary_kw,
                   tertiary_kw, intent, meta_desc, generated_titles,
                   generated_descriptions, titles, descs, intents, out>>

\* app.py 90: no draw of the loop fitted
FallbackTitle(c) ==
    /\ pc = "gen_title" /\ k = RETRIES
    /\ meta_title' = Take(TitleTemplates[c], TITLE_MAX)
    /\ nDraws' = nDraws + 1
    /\ pc' = "chk_title"
    /\ UNCHANGED <<rows, i, title1, existing_desc, primary_kw, secondary_kw,
                   tertiary_kw, intent, k, cand, meta_desc, generated_titles,
                   generated_descriptions, titles, descs, intents, out>>

\* a loop test that never sees a collision
NeverIn(v, seen) == FALSE
\* "v in generated_titles" / "v in generated_descriptions", app.py 155 and 160
Collides(v, seen) == v \in seen

\* app.py 155-159: the deduplication loop of the title, then the call of
\* generate_description
DedupTitle ==
    /\ pc = "chk_title"
    /\ IF Collides(meta_title, generated_titles)
       THEN /\ pc' = "gen_title"
            /\ UNCHANGED generated_titles
       ELSE /\ generated_titles' = generated_titles \cup {meta_title}
            /\ pc' = "gen_desc"
    /\ k' = 0 /\ nDraws' = 0 /\ cand' = ""
    /\ UNCHANGED <<rows, i, title1, existing_desc, primary_kw, secondary_kw,
                   tertiary_kw, intent, meta_title, meta_desc,
                   generated_descriptions, titles, descs, intents, out>>

\* app.py 116-119: one iteration of the retry loop of generate_description
DrawDesc(c) ==
    /\ pc = "gen_desc" /\ k < RETRIES
    /\ cand' = DescTemplates[c]
    /\ nDraws' = nDraws + 1
    /\ IF within_range(cand', DESC_MIN, DESC_MAX)
       THEN meta_desc' = cand' /\ pc' = "chk_desc" /\ k' = k
       ELSE meta_desc' = meta_desc /\ pc' = pc /\ k' = k + 1
    /\ UNCHANGED <<rows, i, title1, existing_desc, primary_kw, secondary_kw,
                   tertiary_kw, intent, meta_title, generated_titles,
                   generated_descriptions, titles, descs, intents, out>>

\* app.py 120
FallbackDesc(c) ==
    /\ pc = "gen_desc" /\ k = RETRIES
    /\ meta_desc' = Take(DescTemplates[c], DESC_MAX)
    /\ nDraws' = nDraws + 1
    /\ pc' = "chk_desc"
    /\ UNCHANGED <<rows, i, title1, existing_desc, primary_kw, secondary_kw,
                   tertiary_kw, intent, k, cand, meta_title, generated_titles,
                   generated_descriptions, titles, descs, intents, out>>

\* app.py 160-166: the deduplication loop of the description, then the row's
\* results are appended and the loop goes to the next row
DedupDesc ==
    /\ pc = "chk_desc"
    /\ IF Collides(meta_desc, generated_descriptions)
       THEN /\ pc' = "gen_desc"
            /\ k' = 0 /\ nDraws' = 0 /\ cand' = ""
            /\ UNCHANGED <<generated_descriptions, titles, descs, intents, i>>
       ELSE /\ generated_descriptions' = generated_descriptions \cup {meta_desc}
            /\ titles' = Append(titles, meta_title)
            /\ descs' = Append(descs, meta_desc)
            /\ intents' = Append(intents, intent)
            /\ i' = i + 1
            /\ pc' = "row"
            /\ UNCHANGED <<k, nDraws, cand>>
    /\ UNCHANGED <<rows, title1, existing_desc, primary_kw, secondary_kw,
                   tertiary_kw, intent, meta_title, meta_desc, generated_titles,
                   out>>

\* app.py 168-172: the loop is over, the result columns are added to df
Finish ==
    /\ pc = "row" /\ i > Len(rows)
    /\ out' = [n \in 1..Len(rows) |->
                 [intent |-> intents[n],
                  title |-> titles[n],
                  desc |-> descs[n],
                  title_count |-> Len(titles[n]),
                  desc_count |-> Len(descs[n])]]
    /\ pc' = "done"
    /\ UNCHANGED <<rows, i, title1, existing_desc, primary_kw, secondary_kw,
                   tertiary_kw, intent, k, nDraws, cand, meta_title, meta_desc,
                   generated_titles, generated_descriptions, titles, descs,
                   intents>>

Next ==
    \/ ReadRow
    \/ \E c \in 1..Len(TitleTemplates) : DrawTitle(c)
    \/ \E c \in 1..Len(TitleTemplates) : FallbackTitle(c)
    \/ DedupTitle
    \/ \E c \in 1..Len(DescTemplates) : DrawDesc(c)
    \/ \E c \in 1..Len(DescTemplates) : FallbackDesc(c)
    \/ DedupDesc
    \/ Finish

Spec == Init /\ [][Next]_vars

\* the runs over one-row tables
RowInit == \E table \in OneRowTables : InitWith(table)
RowSpec == RowInit /\ [][Next]_vars

\* the runs over tables of identical rows
HangInit == \E table \in HangTables : InitWith(table)
HangSpec == HangInit /\ [][Next]_vars

-----------------------------------------------------------------------------
(* Words of a text, for the claims about detect_intent: the text cut into  *)
(* its maximal runs of word characters and the separators between them.    *)

RECURSIVE RunEnd(_, _)
RunEnd(s, p) ==
    IF p < Len(s) /\ IsWordAt(s, p + 1) = IsWordAt(s, p) THEN RunEnd(s, p + 1) ELSE p

RECURSIVE TokensFrom(_, _)
TokensFrom(s, p) ==
    IF p > Len(s) THEN <<>>
    ELSE <<SubSeq(s, p, RunEnd(s, p))>> \o TokensFrom(s, RunEnd(s, p) + 1)

Tokens(s) == TokensFrom(s, 1)

\* the case-folded "title description" text of the row being processed
FoldedText == Lower(title1 \o " " \o existing_desc)

\* some keyword of kws occurs in the text as a whole word (for "how to": as
\* the two whole words with one space between them)
Present(kws) ==
    LET toks == Tokens(FoldedText) IN
    \E kw \in kws : \E j \in 1..Len(toks) :
        /\ j + Len(Tokens(kw)) - 1 <= Len(toks)
        /\ SubSeq(toks, j, j + Len(Tokens(kw)) - 1) = Tokens(kw)

\* some keyword of kws occurs in the text as a string of characters
Occurs(kws) ==
    LET text == FoldedText IN
    \E kw \in kws : \E p \in 1..Len(text) :
        /\ p + Len(kw) - 1 <= Len(text)
        /\ SubSeq(text, p, p + Len(kw) - 1) = kw

\* detect_intent has just returned the intent of the row at hand
Classified == pc = "gen_title" /\ nDraws = 0

\* C5: detect_intent returns the first category, in the order product, service,
\* blog, category, of which the text holds a keyword, and generic when it holds
\* a keyword of none.
C5_FirstMatchWins ==
    Classified =>
        intent = IF Present(ProductKW) THEN "product"
                 ELSE IF Present(ServiceKW) THEN "service"
                 ELSE IF Present(BlogKW) THEN "blog"
                 ELSE IF Present(CategoryKW) THEN "category"
                 ELSE "generic"

\* a text with a product, a service and a category keyword has been classified
C5_Witness ==
    /\ Classified /\ Present(ProductKW) /\ Present(ServiceKW)
    /\ Present(CategoryKW) /\ intent = "product"

\* C6: a text is classified by a category only when a keyword of the category
\* occurs in it as a whole word; an occurrence inside a longer word does not
\* count.
C6_WordBoundaries ==
    Classified =>
        /\ intent = "product" => Present(ProductKW)
        /\ intent = "service" => Present(ServiceKW)
        /\ intent = "blog" => Present(BlogKW)
        /\ intent = "category" => Present(CategoryKW)
        /\ (Occurs(ProductKW) /\ ~Present(ProductKW)) => intent # "product"

\* "Rebuy Center": buy occurs only inside a longer word, the text is not product
C6_Witness ==
    /\ Classified /\ title1 = "Rebuy Center"
    /\ Occurs(ProductKW) /\ ~Present(ProductKW) /\ intent = "generic"

-----------------------------------------------------------------------------
(* The claims about the generation of one row.                             *)

\* the fields and the intent are those of row r
AtRow(r) == pc \notin {"row", "done"} /\ rows[i] = r

TitleReturned == pc \in {"chk_title", "gen_desc", "chk_desc"}
DescReturned == pc = "chk_desc"

\* C1 (as claimed): the row of Acme Laptops is classified product, and
\* whatever is drawn, its title has 50 to 60 characters and its description
\* 150 to 160.
C1_AcmeInWindow ==
    AtRow(AcmeRow) =>
        /\ intent = "product"
        /\ TitleReturned => TITLE_MIN <= Len(meta_title) /\ Len(meta_title) <= TITLE_MAX
        /\ DescReturned => DESC_MIN <= Len(meta_desc) /\ Len(meta_desc) <= DESC_MAX

\* C2 (as claimed): the row of My Blog with empty keywords and "how to" in its
\* description is classified blog, and whatever is drawn, its title has 50 to
\* 60 characters and its description 150 to 160.
C2_BlogInWindow ==
    AtRow(BlogRow) =>
        /\ intent = "blog"
        /\ primary_kw = "" /\ secondary_kw = "" /\ tertiary_kw = ""
        /\ TitleReturned => TITLE_MIN <= Len(meta_title) /\ Len(meta_title) <= TITLE_MAX
        /\ DescReturned => DESC_MIN <= Len(meta_desc) /\ Len(meta_desc) <= DESC_MAX

\* C8: a record whose five fields are empty is classified generic, and
\* generate_title and generate_description return for it one of the generic
\* templates rendered with empty segments.
C8_EmptyRecord ==
    ( /\ pc \notin {"row", "done"}
      /\ title1 = "" /\ existing_desc = "" /\ primary_kw = ""
      /\ secondary_kw = "" /\ tertiary_kw = "" ) =>
        /\ intent = "generic"
        /\ TitleReturned =>
             meta_title \in {" |  Insights & Information", "Discover  at ",
                             " - Learn More with ", ": Everything About "}
        /\ DescReturned =>
             meta_desc \in
               {" provides detailed information about . Explore  and  insights that help you make smarter decisions.",
                "Learn everything about  with . Discover  and  to expand your knowledge today."}

\* both functions have returned for a record of empty fields
C8_Witness ==
    /\ AtRow(BlankRow) /\ DescReturned
    /\ title1 = "" /\ existing_desc = "" /\ primary_kw = ""
    /\ secondary_kw = "" /\ tertiary_kw = ""
    /\ Len(meta_title) > 0 /\ Len(meta_desc) > 0

-----------------------------------------------------------------------------
(* The claims about a batch run.                                           *)

Range(f) == {f[n] : n \in DOMAIN f}
NoDuplicates(f) == \A m, n \in DOMAIN f : f[m] = f[n] => m = n

\* C3: the titles of the processed records are pairwise different, and so are
\* their descriptions; every value appended is in the run's set.
C3_NoDuplicates ==
    /\ NoDuplicates(titles) /\ NoDuplicates(descs)
    /\ Range(titles) \subseteq generated_titles
    /\ Range(descs) = generated_descriptions
    /\ Cardinality(generated_descriptions) = Len(descs)

\* a run over two identical rows has ended
C3_Witness ==
    /\ pc = "done" /\ Len(rows) >= 2 /\ rows[1] = rows[2]
    /\ Len(titles) = Len(rows) /\ Len(descs) = Len(rows)

\* C10: no title returned or stored is longer than TITLE_MAX and no description
\* longer than DESC_MAX, also after the deduplication loop has regenerated it.
C10_MaximumRespected ==
    /\ TitleReturned => Len(meta_title) <= TITLE_MAX
    /\ DescReturned => Len(meta_desc) <= DESC_MAX
    /\ \A n \in DOMAIN titles : Len(titles[n]) <= TITLE_MAX
    /\ \A n \in DOMAIN descs : Len(descs[n]) <= DESC_MAX
    /\ \A n \in DOMAIN out :
          out[n].title_count <= TITLE_MAX /\ out[n].desc_count <= DESC_MAX

\* two copies of a row whose templates all exceed the maxima have been
\* processed, the second one through the deduplication loop
C10_Witness ==
    /\ pc = "done" /\ Len(rows) >= 2 /\ rows[1] = LongRow /\ rows[2] = LongRow
    /\ \A c \in 1..4 :
          Len(title_templates("service", title1, primary_kw, secondary_kw)[c]) > TITLE_MAX
    /\ out[2].title_count = TITLE_MAX /\ out[2].desc_count = DESC_MAX

\* the variable a column is read into
FieldOf(col) ==
    CASE col = "Title 1" -> title1
      [] col = "Existing Description" -> existing_desc
      [] col = "Primary KW" -> primary_kw
      [] col = "Secondary KW" -> secondary_kw
      [] OTHER -> tertiary_kw

\* C7 (as claimed): a column the file does not have and a null cell are both
\* read as the empty string.
C7_AbsentOrNullIsEmpty ==
    pc \notin {"row", "done"} =>
        \A col \in Columns :
            (col \notin DOMAIN rows[i] \/ rows[i][col].isnull) => FieldOf(col) = ""

\* the values a call can return: a template that fits the window, or, when
\* some template does not fit so that 10 draws can all miss, any template cut
\* to the maximum
Returnable(templates, min_len, max_len) ==
    LET fit == {t \in Range(templates) : min_len <= Len(t) /\ Len(t) <= max_len} IN
    fit \cup (IF fit # Range(templates)
              THEN {Take(t, max_len) : t \in Range(templates)}
              ELSE {})

\* C4 (as claimed): the deduplication loop of every record ends after a bounded
\* number of regenerations by accepting a value, so that the run completes.
\* Stated as what every state of a run that completes satisfies: while a record
\* is in a deduplication loop, the generator can still return a value that the
\* run has not produced before.
C4_DedupLoopCanEnd ==
    /\ pc \in {"gen_title", "chk_title"} =>
         Returnable(TitleTemplates, TITLE_MIN, TITLE_MAX) \ generated_titles # {}
    /\ pc \in {"gen_desc", "chk_desc"} =>
         Returnable(DescTemplates, DESC_MIN, DESC_MAX) \ generated_descriptions # {}

=============================================================================
